---- MODULE Spec2Model ----
(***************************************************************************)
(* SmartShell (src/main.py): the do / explain / history / clear commands   *)
(* and the SQLite-backed HistoryManager they share.                        *)
(*                                                                         *)
(* One behaviour is a sequence of process runs of the CLI on one host and  *)
(* one database file, one run at a time.  Every run imports the module     *)
(* (which constructs history_db: create_table, then migrate) and then      *)
(* dispatches exactly one command.  do() is split at its blocking calls:   *)
(* the completion request, the confirmation prompt, save() and             *)
(* subprocess.run.                                                         *)
(*                                                                         *)
(* Text that the program transforms (the backend's responses, the explain  *)
(* input) is a sequence of one-character strings.  The backend, the user's *)
(* answers, the clock, the outcome of the INSERT and the outcome of the    *)
(* child process are inputs chosen freely from small sets.  An INSERT that *)
(* fails stores nothing (the process ends without another commit).         *)
(*                                                                         *)
(* Spec has a storage fault where the code handles one, in save().         *)
(* SpecFaults adds faults in the other HistoryManager methods.  TextSpec   *)
(* applies check_risk and the two sanitizing chains to texts on their own. *)
(***************************************************************************)
EXTENDS Integers, Sequences, FiniteSets, TLC

VARIABLES
    cols,      \* history table: its column names in schema order, <<>> = no table
    rows,      \* history table: the stored rows, each a function column -> value
    seq,       \* sqlite_sequence entry of the AUTOINCREMENT id column
    issued,    \* the ids INSERTs were given so far, in order (history variable)
    system,    \* platform.system() of the host
    now,       \* the wall clock, in minutes
    pc,        \* position of the running process ("off" = no process)
    client,    \* module global client of the running process
    invoked,   \* the command the running process dispatched ("none" before)
    gateway,   \* how the completion request of this process ended ("none" = not made)
    task,      \* do(): the task argument
    command,   \* do(): the sanitized command / explain(): the command argument
    risks,     \* do(): result of check_risk(command)
    answer,    \* what Confirm.ask returned in this process ("none" = not asked)
    saved,     \* what history_db.save returned in this process ("none" = not called)
    shown,     \* the text inside the Panel the running process printed
    console,   \* what the running process printed or asked, in order
    calls,     \* subprocess.run calls of the running process: argv and outcome
    limit,     \* history(): the limit option
    listed,    \* history(): the items get_all returned
    rows0,     \* the stored rows when the running process dispatched its command
    raw,       \* the message content the request of this process returned
    errors     \* exceptions raised inside HistoryManager methods in this process

vars == <<cols, rows, seq, issued, system, now, pc, client, invoked, gateway,
          task, command,
          risks, answer, saved, shown, console, calls, limit, listed, rows0,
          raw, errors>>

----------------------------------------------------------------------------
(* Bounds of the model *)

\* ids are handed out up to this value; INSERTs beyond it are not explored
MaxId == 3
\* the clock runs from 0 to MaxClock
MaxClock == 1
\* rows already present in a legacy (pre-cmd_type) database at the start
MaxLegacy == 1

----------------------------------------------------------------------------
(* Text helpers: Python str methods on sequences of characters *)

Whitespace == {" ", "\t", "\n", "\r"}

Upper == <<"A","B","C","D","E","F","G","H","I","J","K","L","M",
           "N","O","P","Q","R","S","T","U","V","W","X","Y","Z">>
Lowercase == <<"a","b","c","d","e","f","g","h","i","j","k","l","m",
               "n","o","p","q","r","s","t","u","v","w","x","y","z">>

LowerChar(c) ==
    IF \E i \in 1..26 : Upper[i] = c
    THEN Lowercase[CHOOSE i \in 1..26 : Upper[i] = c]
    ELSE c

\* str.lower()
Lower(s) == [i \in 1..Len(s) |-> LowerChar(s[i])]

RECURSIVE LStrip(_)
LStrip(s) ==
    IF s # <<>> /\ Head(s) \in Whitespace THEN LStrip(Tail(s)) ELSE s

RECURSIVE RStrip(_)
RStrip(s) ==
    IF s # <<>> /\ s[Len(s)] \in Whitespace
    THEN RStrip(SubSeq(s, 1, Len(s) - 1))
    ELSE s

\* str.strip()
Strip(s) == RStrip(LStrip(s))

StartsWith(s, p) == Len(p) <= Len(s) /\ SubSeq(s, 1, Len(p)) = p

\* the substring test (p in s)
Contains(s, p) == \E i \in 0..(Len(s) - Len(p)) : SubSeq(s, i + 1, i + Len(p)) = p

\* str.replace(p, ""), p non-empty: left to right, non-overlapping
RECURSIVE Remove(_, _)
Remove(s, p) ==
    IF Len(s) < Len(p) THEN s
    ELSE IF StartsWith(s, p) THEN Remove(SubSeq(s, Len(p) + 1, Len(s)), p)
    ELSE <<Head(s)>> \o Remove(Tail(s), p)

\* the backquote character (a string literal cannot hold it)
BT == "<backquote>"

FencePowershell == <<BT, BT, BT, "p","o","w","e","r","s","h","e","l","l">>
FenceBash == <<BT, BT, BT, "b","a","s","h">>
Fence == <<BT, BT, BT>>
Backtick == <<BT>>

\* mutant: without the last strip()
SanitizeCommandUntrimmed(content) ==
    Remove(Remove(Remove(Remove(Strip(content),
          FencePowershell), FenceBash), Fence), Backtick)

\* do(): lines 167-168
SanitizeCommand(content) ==
    Strip(Remove(Remove(Remove(Remove(Strip(content),
          FencePowershell), FenceBash), Fence), Backtick))

\* explain(): lines 212-214
SanitizeExplanation(content) ==
    Remove(Remove(Remove(Strip(content), FenceBash), FencePowershell), Fence)

dangerous_keywords ==
    << <<"r","m">>, <<"d","e","l">>, <<"f","o","r","m","a","t">>,
       <<"e","r","a","s","e">>, <<"d","r","o","p">>,
       <<"t","r","u","n","c","a","t","e">>,
       <<"s","h","u","t","d","o","w","n">>, <<"r","e","b","o","o","t">>,
       <<"r","e","m","o","v","e","-","i","t","e","m">>,
       <<"r","i"," ">>, <<"r","d"," ","/","s">> >>

RECURSIVE FilterRisks(_, _)
FilterRisks(words, text) ==
    IF words = <<>> THEN <<>>
    ELSE (IF Contains(text, Head(words)) THEN <<Head(words)>> ELSE <<>>)
         \o FilterRisks(Tail(words), text)

\* mutant: without lower()
check_risk_as_written(cmd) == FilterRisks(dangerous_keywords, cmd)

check_risk(cmd) == FilterRisks(dangerous_keywords, Lower(cmd))

get_system_info ==
    IF system = "Windows"
    THEN <<"Windows", "PowerShell", "powershell">>
    ELSE <<system, "Bash", "bash">>

----------------------------------------------------------------------------
(* The history table (SQLite) *)

Range(s) == {s[i] : i \in 1..Len(s)}

Max(a, b) == IF a >= b THEN a ELSE b
Min(a, b) == IF a <= b THEN a ELSE b

MaxOf(S) == IF S = {} THEN 0 ELSE CHOOSE m \in S : \A x \in S : x <= m

\* CREATE TABLE history (...): the columns of create_table's statement
TableColumns == <<"id", "timestamp", "cmd_type", "task", "command", "os_info">>

\* the table of a database written before cmd_type existed
LegacyColumns == <<"id", "timestamp", "task", "command", "os_info">>

\* create_table(): CREATE TABLE IF NOT EXISTS
create_table(cs) == IF cs = <<>> THEN TableColumns ELSE cs

\* the column migrate() adds
ModeColumn == "cmd_type"

\* mutant: the column is added with another default
ModeDefaultExplain == "explain"

\* the DEFAULT migrate() gives the column
ModeDefault == "do"

\* ALTER TABLE history ADD COLUMN raises sqlite3.OperationalError:
\* no such table, or duplicate column name
AlterRaises(cs, col) == cs = <<>> \/ col \in Range(cs)

\* mutant: migrate() without its try/except
MigrateCatchesNothing == {}

\* migrate(): the exceptions its except clause swallows
MigrateCatches == {"OperationalError"}

\* migrate(): the ALTER's exception leaves migrate
migrate_raises(cs) ==
    AlterRaises(cs, ModeColumn) /\ "OperationalError" \notin MigrateCatches

\* an exception raised inside a HistoryManager method, and how the method
\* let it end: "raised" to its caller, "logged" on the console, or "discarded"
StoreError(op, error, end) == [op |-> op, error |-> error, end |-> end]

\* messages of sqlite3.OperationalError
DuplicateColumn == "duplicate column name"
NoSuchTable == "no such table"
NoSuchColumn == "no such column"
DiskError == "disk I/O error"

\* migrate(): what becomes of an OperationalError of its ALTER (except: pass)
migrate_end ==
    IF "OperationalError" \in MigrateCatches THEN "discarded" ELSE "raised"

\* migrate(): the exceptions raised inside it
migrate_errors(cs) ==
    IF AlterRaises(cs, ModeColumn)
    THEN <<StoreError("migrate",
                      IF cs = <<>> THEN NoSuchTable ELSE DuplicateColumn,
                      migrate_end)>>
    ELSE <<>>

\* a row read after ADD COLUMN col DEFAULT v: the old fields and col = v
WithColumn(r, col, v) ==
    [c \in DOMAIN r \cup {col} |-> IF c = col THEN v ELSE r[c]]

\* migrate(): the schema it leaves (the except branch leaves it as it is)
migrate_cols(cs) ==
    IF AlterRaises(cs, ModeColumn) THEN cs ELSE Append(cs, ModeColumn)

\* migrate(): the rows it leaves
migrate_rows(cs, rs) ==
    IF AlterRaises(cs, ModeColumn) THEN rs
    ELSE {WithColumn(r, ModeColumn, ModeDefault) : r \in rs}

\* mutant: INTEGER PRIMARY KEY without AUTOINCREMENT, largest rowid + 1
NextIdFromRows(rs, sq) == MaxOf({r.id : r \in rs}) + 1

\* INTEGER PRIMARY KEY AUTOINCREMENT: the id the next INSERT gets
NextId(rs, sq) == Max(sq, MaxOf({r.id : r \in rs})) + 1

\* the columns save()'s INSERT names
InsertColumns == {"timestamp", "cmd_type", "task", "command", "os_info"}

\* the INSERT raises: a storage fault, or a named column the table lacks
InsertRaises(cs, fault) == fault \/ ~(InsertColumns \subseteq Range(cs))

NULL == "NULL"

\* the row save()'s INSERT stores
InsertedRow(cs, id, ts, cmd_type, tsk, cmdtext, os_info) ==
    [c \in Range(cs) |->
        CASE c = "id" -> id
          [] c = "timestamp" -> ts
          [] c = "cmd_type" -> cmd_type
          [] c = "task" -> tsk
          [] c = "command" -> cmdtext
          [] c = "os_info" -> os_info
          [] OTHER -> NULL]

\* save(): True iff the INSERT and the commit raised nothing
save_result(fault) == ~InsertRaises(cols, fault)

\* save(): except Exception prints Database Error and returns False
save_end == "logged"

\* save(): the exceptions raised inside it
save_errors(fault) ==
    IF InsertRaises(cols, fault)
    THEN <<StoreError("save", IF fault THEN DiskError ELSE NoSuchColumn, save_end)>>
    ELSE <<>>

\* mutant: INSERT OR REPLACE keyed by the task, an older row of the task goes
save_rows_replacing(fault, cmd_type, tsk, cmdtext, os_info) ==
    IF InsertRaises(cols, fault) THEN rows
    ELSE {r \in rows : r.task # tsk}
         \cup {InsertedRow(cols, NextId(rows, seq), now,
                           cmd_type, tsk, cmdtext, os_info)}

\* save(): the rows after it
save_rows(fault, cmd_type, tsk, cmdtext, os_info) ==
    IF InsertRaises(cols, fault) THEN rows
    ELSE rows \cup {InsertedRow(cols, NextId(rows, seq), now,
                                cmd_type, tsk, cmdtext, os_info)}

\* save(): sqlite_sequence after it
save_seq(fault) ==
    IF InsertRaises(cols, fault) THEN seq ELSE NextId(rows, seq)

\* the ids handed out, after save()
save_issued(fault) ==
    IF InsertRaises(cols, fault) THEN issued
    ELSE Append(issued, NextId(rows, seq))

\* mutant: ORDER BY id ASC
RECURSIVE OrderByIdAsc(_)
OrderByIdAsc(rs) ==
    IF rs = {} THEN <<>>
    ELSE LET low == CHOOSE r \in rs : \A q \in rs : r.id <= q.id
         IN <<low>> \o OrderByIdAsc(rs \ {low})

\* ORDER BY id DESC
RECURSIVE OrderByIdDesc(_)
OrderByIdDesc(rs) ==
    IF rs = {} THEN <<>>
    ELSE LET top == CHOOSE r \in rs : \A q \in rs : q.id <= r.id
         IN <<top>> \o OrderByIdDesc(rs \ {top})

\* LIMIT n (a negative n is no limit in SQLite)
Limit(s, n) == IF n < 0 THEN s ELSE SubSeq(s, 1, Min(n, Len(s)))

\* SELECT timestamp, cmd_type, task, command
Selected(r) == <<r.timestamp, r.cmd_type, r.task, r.command>>

\* the columns get_all()'s SELECT names
SelectColumns == {"id", "timestamp", "cmd_type", "task", "command"}

\* the SELECT raises: a storage fault, or a named column the table lacks
SelectRaises(cs, fault) == fault \/ ~(SelectColumns \subseteq Range(cs))

\* get_all() has no try: the exception leaves it
get_all_errors(cs, fault) ==
    IF SelectRaises(cs, fault)
    THEN <<StoreError("get_all", IF fault THEN DiskError ELSE NoSuchColumn, "raised")>>
    ELSE <<>>

\* get_all(limit)
get_all(rs, n) ==
    LET found == Limit(OrderByIdDesc(rs), n)
    IN [i \in 1..Len(found) |-> Selected(found[i])]

\* mutant: DELETE FROM history WHERE cmd_type = 'do'
clear_all_do_only(rs) == {r \in rs : r.cmd_type # "do"}

\* clear_all(): DELETE FROM history
clear_all(rs) == {}

\* clear_all() has no try: the exception of a failed DELETE leaves it
clear_all_errors(fault) ==
    IF fault THEN <<StoreError("clear_all", DiskError, "raised")>> ELSE <<>>

----------------------------------------------------------------------------
(* Inputs *)

\* values of platform.system(); "" is its value for a host it cannot name
Systems == {"Windows", "Linux", ""}

\* os.getenv("GROQ_API_KEY") after load_dotenv(ENV_FILE); "" stands for None too
Keys == {"", "gsk"}

\* the task text is only stored and put into the prompt: one value stands for all
Tasks == {"A"}

\* message.content values the backend returns
Contents ==
    { <<BT, BT, BT, "b","a","s","h", "\n", "l","s", "\n", BT, BT, BT>>,
      <<" ", "R","M", " ", "x", "\n">> }

\* texts given to explain
ExplainInputs == { <<"r","m", "?">> }

\* the default of history's limit option
DefaultLimit == 10

Limits == {-1, 0, 2, DefaultLimit}

\* outcomes of chat.completions.create(...).choices[0].message.content.strip()
\* that raise: the request fails, or the content is None
GatewayFailures == {"request failed", "content is None"}

\* the exception a failed request raises
ExceptionOf(f) == IF f = "request failed" THEN "APIError" ELSE "AttributeError"

\* outcomes of subprocess.run: the child's exit status, or FileNotFoundError
RunOutcomes == {"exit 0", "exit 1", "FileNotFoundError"}

\* a row of a database written before cmd_type existed
LegacyRow(i, os_name) ==
    [id |-> i, timestamp |-> 0, task |-> "A", command |-> <<"l","s">>,
     os_info |-> os_name]

----------------------------------------------------------------------------
(* The state before the first run: no database, or a legacy one *)

NoLocals ==
    /\ pc = "off"
    /\ client = "None"
    /\ invoked = "none"
    /\ gateway = "none"
    /\ task = ""
    /\ command = <<>>
    /\ risks = <<>>
    /\ answer = "none"
    /\ saved = "none"
    /\ shown = <<>>
    /\ console = <<>>
    /\ calls = <<>>
    /\ limit = 0
    /\ listed = <<>>
    /\ rows0 = {}
    /\ raw = <<>>
    /\ errors = <<>>

Init ==
    /\ system \in Systems
    /\ now = 0
    /\ \/ cols = <<>> /\ rows = {} /\ seq = 0 /\ issued = <<>>
       \/ \E k \in 0..MaxLegacy :
             /\ cols = LegacyColumns
             /\ rows = {LegacyRow(i, IF system = "Windows" THEN "Windows" ELSE system)
                        : i \in 1..k}
             /\ seq = k
             /\ issued = [i \in 1..k |-> i]
    /\ NoLocals

----------------------------------------------------------------------------
(* A process run: import of the module, one command, exit *)

Say(msgs) == console' = console \o msgs

\* import: load_dotenv, client, history_db = HistoryManager()
Start ==
    /\ pc = "off"
    /\ \E api_key \in Keys : client' = IF api_key # "" THEN "Groq" ELSE "None"
    /\ errors' = migrate_errors(create_table(cols))
    /\ cols' = migrate_cols(create_table(cols))
    /\ rows' = migrate_rows(create_table(cols), rows)
    /\ IF migrate_raises(create_table(cols))
       THEN pc' = "crashed" /\ Say(<<"Traceback">>)
       ELSE pc' = "ready" /\ UNCHANGED console
    /\ UNCHANGED <<seq, issued, system, now, invoked, gateway, task, command, risks,
                   answer, saved, shown, calls, limit, listed, rows0, raw>>

\* the process ends
Exit ==
    /\ pc \in {"done", "crashed"}
    /\ pc' = "off"
    /\ client' = "None"
    /\ invoked' = "none"
    /\ gateway' = "none"
    /\ task' = ""
    /\ command' = <<>>
    /\ risks' = <<>>
    /\ answer' = "none"
    /\ saved' = "none"
    /\ shown' = <<>>
    /\ console' = <<>>
    /\ calls' = <<>>
    /\ limit' = 0
    /\ listed' = <<>>
    /\ rows0' = {}
    /\ raw' = <<>>
    /\ errors' = <<>>
    /\ UNCHANGED <<cols, rows, seq, issued, system, now>>

\* time passes between two runs (datetime.now() is read once per run)
Tick ==
    /\ pc = "off"
    /\ now < MaxClock
    /\ now' = now + 1
    /\ UNCHANGED <<cols, rows, seq, issued, system, pc, client, invoked, gateway,
                   task, command, risks, answer, saved, shown, console, calls,
                   limit, listed, rows0>>
    /\ UNCHANGED <<raw, errors>>

----------------------------------------------------------------------------
(* do(task) *)

\* the cmd_type do() passes to save()
DoMode == "do"

\* mutant: the command is run before it is logged
DoConfirmedStepsRunFirst == <<"do_run", "do_save">>

\* the statements of do() under the confirmation, in program order
DoConfirmedSteps == <<"do_save", "do_run">>

\* where do() goes after the position p of the confirmed branch
AfterStep(p) ==
    LET i == CHOOSE j \in 1..Len(DoConfirmedSteps) : DoConfirmedSteps[j] = p
    IN IF i < Len(DoConfirmedSteps) THEN DoConfirmedSteps[i + 1] ELSE "done"

\* mutant: the exception is swallowed and do() goes on to the confirmation
AfterGatewayIgnoringError(raised) == "do_confirm"

\* the try block: an exception leaves it for the except clause
AfterGateway(raised) == IF raised THEN "done" ELSE "do_confirm"

\* mutant: the answer is not tested
AfterConfirmUntested(yes) == DoConfirmedSteps[1]

\* if Confirm.ask(...):
AfterConfirm(yes) == IF yes THEN DoConfirmedSteps[1] ELSE "done"

\* mutant: a failed save ends do()
AfterSaveAborting(ok) == IF ok THEN AfterStep("do_save") ELSE "done"

\* save() returned: do() goes on whatever it returned
AfterSave(ok) == AfterStep("do_save")

\* the exception classes raised in the try blocks of do() and explain()
Exceptions == {"APIError", "AttributeError", "FileNotFoundError"}

\* mutant: except APIError
CaughtApiOnly == {"APIError"}

\* except Exception as e: the classes the clause catches
Caught == Exceptions

\* an exception raised in the try block: the except clause prints the error
\* and the command returns, or the exception leaves the command
AfterRaise(e, handled) == IF e \in Caught THEN handled ELSE "crashed"

ErrorOutput(e) == IF e \in Caught THEN <<"Error">> ELSE <<"Traceback">>

\* mutant: a dummy client stands in when there is no key
ClientAlwaysUsable(cl) == TRUE

\* client is None without a key: client.chat raises AttributeError
ClientUsable(cl) == cl # "None"

\* the exceptions the request can raise
RequestRaised(cl) ==
    IF ClientUsable(cl) THEN {ExceptionOf(f) : f \in GatewayFailures}
    ELSE {"AttributeError"}

\* mutant: -c on Linux only
run_flag_linux_only(os_name) == IF os_name = "Linux" THEN "-c" ELSE "-Command"

\* line 184: flag = "-Command" if os_name == "Windows" else "-c"
run_flag(os_name) == IF os_name = "Windows" THEN "-Command" ELSE "-c"

\* mutant: the shell gets the response as it came
InlineArgumentRaw(content, cmdtext) == content

\* line 185: the third element of subprocess.run's argument list
InlineArgument(content, cmdtext) == cmdtext

\* lines 155-158: the environment line and the prompt
Do ==
    /\ pc = "ready"
    /\ NextId(rows, seq) <= MaxId
    /\ invoked' = "do"
    /\ \E t \in Tasks : task' = t
    /\ rows0' = rows
    /\ Say(<<"Env">>)
    /\ pc' = "do_gateway"
    /\ UNCHANGED <<cols, rows, seq, issued, system, now, client, gateway, command,
                   risks, answer, saved, shown, calls, limit, listed>>
    /\ UNCHANGED <<raw, errors>>

\* lines 160-177 and 187-188: the request, the sanitized command, its risks
DoGateway ==
    /\ pc = "do_gateway"
    /\ \/ /\ gateway' = "failed"
          /\ \E e \in RequestRaised(client) :
                /\ Say(ErrorOutput(e))
                /\ pc' = AfterRaise(e, AfterGateway(TRUE))
          /\ UNCHANGED <<command, risks, shown, raw>>
       \/ /\ ClientUsable(client)
          /\ gateway' = "answered"
          /\ \E content \in Contents :
                /\ raw' = content
                /\ command' = SanitizeCommand(content)
                /\ risks' = check_risk(command')
                /\ shown' = command'
                /\ Say(IF risks' # <<>> THEN <<"SUGGESTION red", "WARNING">>
                                        ELSE <<"SUGGESTION green">>)
          /\ pc' = AfterGateway(FALSE)
    /\ UNCHANGED <<cols, rows, seq, issued, system, now, client, invoked, task,
                   answer, saved, calls, limit, listed, rows0, errors>>

\* line 179: Run and log this command?
DoConfirm ==
    /\ pc = "do_confirm"
    /\ \E yes \in BOOLEAN :
          /\ answer' = IF yes THEN "yes" ELSE "no"
          /\ pc' = AfterConfirm(yes)
    /\ Say(<<"Confirm">>)
    /\ UNCHANGED <<cols, rows, seq, issued, system, now, client, invoked, gateway,
                   task, command, risks, saved, shown, calls, limit, listed, rows0>>
    /\ UNCHANGED <<raw, errors>>

\* lines 181-182: history_db.save("do", task, command, os_name)
DoSave ==
    /\ pc = "do_save"
    /\ \E fault \in BOOLEAN :
          /\ rows' = save_rows(fault, DoMode, task, command, get_system_info[1])
          /\ seq' = save_seq(fault)
          /\ issued' = save_issued(fault)
          /\ saved' = IF save_result(fault) THEN "ok" ELSE "failed"
          /\ Say(IF save_result(fault) THEN <<"Logged">> ELSE <<"Database Error">>)
          /\ errors' = errors \o save_errors(fault)
          /\ pc' = AfterSave(save_result(fault))
    /\ UNCHANGED <<cols, system, now, client, invoked, gateway, task, command,
                   risks, answer, shown, calls, limit, listed, rows0, raw>>

\* lines 184-185 and 187-188: subprocess.run([executable, flag, command])
DoRun ==
    /\ pc = "do_run"
    /\ \E outcome \in RunOutcomes :
          /\ calls' = Append(calls,
                [executable |-> get_system_info[3],
                 flag |-> run_flag(get_system_info[1]),
                 text |-> InlineArgument(raw, command),
                 outcome |-> outcome])
          /\ IF outcome \in Exceptions
             THEN Say(ErrorOutput(outcome)) /\ pc' = AfterRaise(outcome, "done")
             ELSE UNCHANGED console /\ pc' = AfterStep("do_run")
    /\ UNCHANGED <<cols, rows, seq, issued, system, now, client, invoked, gateway,
                   task, command, risks, answer, saved, shown, limit, listed, rows0>>
    /\ UNCHANGED <<raw, errors>>

----------------------------------------------------------------------------
(* explain(command) *)

\* mutant: the explanation is logged as a do row
ExplainModeDo == "do"

\* line 222: the cmd_type explain() passes to save()
ExplainMode == "explain"

\* line 222: the task explain() passes to save()
ExplainTask == "Explanation Request"

\* lines 191-203: the prompt around the text
Explain ==
    /\ pc = "ready"
    /\ NextId(rows, seq) <= MaxId
    /\ invoked' = "explain"
    /\ \E text \in ExplainInputs : command' = text
    /\ rows0' = rows
    /\ pc' = "explain_gateway"
    /\ UNCHANGED <<cols, rows, seq, issued, system, now, client, gateway, task,
                   risks, answer, saved, shown, console, calls, limit, listed>>
    /\ UNCHANGED <<raw, errors>>

\* lines 205-225: the request, the cleaned panel, the save
ExplainGateway ==
    /\ pc = "explain_gateway"
    /\ \/ /\ gateway' = "failed"
          /\ \E e \in RequestRaised(client) :
                /\ Say(ErrorOutput(e))
                /\ pc' = AfterRaise(e, "done")
          /\ UNCHANGED <<rows, seq, issued, saved, shown, raw, errors>>
       \/ /\ ClientUsable(client)
          /\ gateway' = "answered"
          /\ \E content \in Contents :
                /\ raw' = content
                /\ shown' = SanitizeExplanation(content)
          /\ \E fault \in BOOLEAN :
                /\ rows' = save_rows(fault, ExplainMode, ExplainTask,
                                     command, get_system_info[1])
                /\ seq' = save_seq(fault)
                /\ issued' = save_issued(fault)
                /\ saved' = IF save_result(fault) THEN "ok" ELSE "failed"
                /\ errors' = errors \o save_errors(fault)
                /\ Say(IF save_result(fault) THEN <<"EXPLANATION">>
                       ELSE <<"EXPLANATION", "Database Error">>)
          /\ pc' = "done"
    /\ UNCHANGED <<cols, system, now, client, invoked, task, command,
                   risks, answer, calls, limit, listed, rows0>>

----------------------------------------------------------------------------
(* history(limit) and clear() *)

\* history(): get_all, then the empty notice or the table; an exception of
\* get_all (the table lacks a column the SELECT names) leaves the command
History ==
    /\ pc = "ready"
    /\ invoked' = "history"
    /\ \E n \in Limits :
          /\ limit' = n
          /\ listed' = IF SelectRaises(cols, FALSE) THEN <<>> ELSE get_all(rows, n)
    /\ errors' = errors \o get_all_errors(cols, FALSE)
    /\ IF SelectRaises(cols, FALSE)
       THEN Say(<<"Traceback">>) /\ pc' = "crashed"
       ELSE /\ Say(IF listed' = <<>> THEN <<"History is empty">>
                                     ELSE <<"Recent Tasks">>)
            /\ pc' = "done"
    /\ rows0' = rows
    /\ UNCHANGED <<cols, rows, seq, issued, system, now, client, gateway, task,
                   command, risks, answer, saved, shown, calls, raw>>

\* mutant: clear_all() is called whatever the answer
clear_rows_unasked(yes, rs) == clear_all(rs)

\* lines 249-250: clear_all() under the confirmation
clear_rows(yes, rs) == IF yes THEN clear_all(rs) ELSE rs

\* clear(): the prompt, then clear_all and the notice
Clear ==
    /\ pc = "ready"
    /\ invoked' = "clear"
    /\ \E yes \in BOOLEAN :
          /\ answer' = IF yes THEN "yes" ELSE "no"
          /\ rows' = clear_rows(yes, rows)
          /\ Say(IF yes THEN <<"Confirm", "History cleared">> ELSE <<"Confirm">>)
    /\ rows0' = rows
    /\ pc' = "done"
    /\ UNCHANGED <<cols, seq, issued, system, now, client, gateway, task, command,
                   risks, saved, shown, calls, limit, listed, raw, errors>>

----------------------------------------------------------------------------

Next ==
    \/ Start
    \/ Exit
    \/ Tick
    \/ Do
    \/ DoGateway
    \/ DoConfirm
    \/ DoSave
    \/ DoRun
    \/ Explain
    \/ ExplainGateway
    \/ History
    \/ Clear

Spec == Init /\ [][Next]_vars

----------------------------------------------------------------------------
(* Properties of do(): confirmation gate, gateway failure, logging *)

Printed(msg) == msg \in Range(console)

\* the row the running do() logged, if its save() returned True
LoggedByDo(r) ==
    /\ r \notin rows0
    /\ r.cmd_type = DoMode
    /\ r.task = task
    /\ r.command = command
    /\ r.os_info = get_system_info[1]

\* C1: in do(), a declined confirmation leaves the stored rows as they were
\* when the command was dispatched and makes no subprocess.run call; a
\* subprocess.run call is made only in a run whose confirmation was accepted.
C1_DeclineLeavesNoTrace ==
    invoked = "do" =>
        /\ answer = "no" => (rows = rows0 /\ calls = <<>> /\ saved = "none")
        /\ calls # <<>> => answer = "yes"

C1_Witness ==
    /\ invoked = "do"
    /\ pc = "done"
    /\ answer = "no"
    /\ rows0 # {}
    /\ risks # <<>>

\* C2: a failed completion request is reported with an Error line and ends
\* the command: do() then asks no confirmation, calls neither save() nor
\* subprocess.run and leaves the rows as they were; explain() calls no
\* save() and leaves the rows as they were.
C2_GatewayFailureNoSideEffect ==
    gateway = "failed" =>
        /\ pc = "done"
        /\ console[Len(console)] = "Error"
        /\ ~Printed("Confirm")
        /\ answer = "none"
        /\ saved = "none"
        /\ calls = <<>>
        /\ rows = rows0

C2_Witness ==
    /\ gateway = "failed"
    /\ client = "Groq"
    /\ invoked = "do"
    /\ rows # {}

\* C3: in a confirmed do(), save() returns (True or False) and never ends
\* the command: a failed INSERT prints a Database Error line, stores nothing,
\* and subprocess.run is still called once, as it is after a successful save.
C3_FailedSaveStillRuns ==
    (invoked = "do" /\ answer = "yes" /\ pc = "done") =>
        /\ saved \in {"ok", "failed"}
        /\ Len(calls) = 1
        /\ calls[1].text = command
        /\ saved = "failed" => (Printed("Database Error") /\ rows = rows0)
        /\ saved = "ok" => Printed("Logged")

C3_Witness ==
    /\ invoked = "do"
    /\ pc = "done"
    /\ answer = "yes"
    /\ saved = "failed"
    /\ Len(calls) = 1
    /\ calls[1].outcome = "exit 0"

\* C4: in a confirmed do(), save() has returned before subprocess.run is
\* called, and the row a successful save() stored is in the table at every
\* later point of the run, also after the shell was not found or the child
\* exited with an error.
C4_LoggedBeforeRunAndKept ==
    invoked = "do" =>
        /\ calls # <<>> => saved # "none"
        /\ saved = "ok" =>
              /\ \E r \in rows : LoggedByDo(r)
              /\ rows0 \subseteq rows
              /\ Cardinality(rows) = Cardinality(rows0) + 1

C4_Witness ==
    /\ invoked = "do"
    /\ pc = "done"
    /\ saved = "ok"
    /\ Len(calls) = 1
    /\ calls[1].outcome = "FileNotFoundError"
    /\ Printed("Error")
    /\ \E r \in rows : LoggedByDo(r)

----------------------------------------------------------------------------
(* Properties of the history table *)

\* a process holds an initialized store
StoreOpen == pc \notin {"off", "crashed"}

\* the limits the listing properties range over
CheckedLimits == (0..(MaxId + 1)) \cup {DefaultLimit}

\* the stored row with exactly i - 1 rows of larger id
Newest(i) == CHOOSE r \in rows : Cardinality({q \in rows : q.id > r.id}) = i - 1

\* what list_recent(n) is to return, n >= 0
RecentRows(n) == [i \in 1..Min(n, Cardinality(rows)) |-> Selected(Newest(i))]

\* C5: whatever was appended and cleared before, get_all(limit) with
\* limit >= 0 returns min(limit, number of rows) items, the rows of largest
\* id, newest first: for every limit when a command is about to be
\* dispatched, and for the listing history() printed.
C5_ListRecentNewestFirst ==
    /\ pc = "ready" =>
          \A n \in CheckedLimits :
              /\ Len(get_all(rows, n)) = Min(n, Cardinality(rows))
              /\ get_all(rows, n) = RecentRows(n)
    /\ (invoked = "history" /\ limit >= 0) =>
          /\ Len(listed) = Min(limit, Cardinality(rows))
          /\ listed = RecentRows(limit)

C5_Witness ==
    /\ invoked = "history"
    /\ limit = 2
    /\ Cardinality(rows) = 3
    /\ listed = <<Selected(Newest(1)), Selected(Newest(2))>>
    /\ Newest(1).id = 3
    /\ Newest(1).cmd_type = "explain"
    /\ Newest(2).cmd_type = "do"
    /\ Newest(2).command # Newest(3).command
    /\ get_all(rows, DefaultLimit) =
           <<Selected(Newest(1)), Selected(Newest(2)), Selected(Newest(3))>>

ClearedIsEmpty ==
    (invoked = "clear" /\ answer = "yes") =>
        /\ rows = {}
        /\ \A n \in Limits \cup CheckedLimits : get_all(rows, n) = <<>>

EmptyUntilSaved ==
    (rows = {} /\ rows' # {}) => (saved # "ok" /\ saved' = "ok")

\* C6: after a confirmed clear() the table is empty, get_all(N) is empty
\* for every N, and an empty table gets a row only by a save() that
\* returns True.
C6_ClearEmpties == []ClearedIsEmpty /\ [][EmptyUntilSaved]_vars

C6_Witness ==
    /\ invoked = "clear"
    /\ answer = "yes"
    /\ Cardinality(rows0) >= 2
    /\ rows = {}
    /\ seq >= 2

StrictlyIncreasing(s) == \A i, j \in 1..Len(s) : i < j => s[i] < s[j]

\* C7: no two stored rows have the same id, and the ids INSERTs were given,
\* in the order they were given over all runs on the database, are strictly
\* increasing, also across clear().
C7_IdsUniqueIncreasing ==
    /\ \A r, q \in rows : r.id = q.id => r = q
    /\ StrictlyIncreasing(issued)
    /\ \A r \in rows : r.id \in Range(issued)

C7_Witness ==
    /\ Len(issued) >= 3
    /\ Cardinality(rows) = 1
    /\ saved = "ok"
    /\ \A r \in rows : r.id = issued[Len(issued)]

\* the step is a confirmed clear() that empties the table
ClearStep == pc = "ready" /\ invoked' = "clear" /\ answer' = "yes" /\ rows' = {}

\* the row is still stored, with every field it had
Kept(r) == \E q \in rows' : \A c \in DOMAIN r : q[c] = r[c]

\* C8: every step of the program (import with create_table and migrate,
\* do, explain, history, a declined clear) keeps every stored row with the
\* values of all the fields it has; rows leave the table only in a confirmed
\* clear(), all at once.
C8_RowsImmutable == [][ClearStep \/ \A r \in rows : Kept(r)]_vars

C8_Witness ==
    /\ saved = "ok"
    /\ Cardinality(rows) >= 3
    /\ \E r, q \in rows : r.task = q.task /\ r.id < q.id /\ r.timestamp < q.timestamp
    /\ rows0 \subseteq rows

ModeColumns(cs) == {i \in 1..Len(cs) : cs[i] = ModeColumn}

\* C9: every import runs create_table and migrate on the database as the
\* earlier runs left it (none, legacy or migrated): migrate never raises,
\* the table then has exactly one cmd_type column, and one more migrate
\* would change neither the schema nor a row.
C9_MigrateIdempotent ==
    /\ pc # "crashed"
    /\ StoreOpen =>
          /\ Cardinality(ModeColumns(cols)) = 1
          /\ ~migrate_raises(cols)
          /\ migrate_cols(cols) = cols
          /\ migrate_rows(cols, rows) = rows

C9_Witness ==
    /\ pc = "ready"
    /\ cols = Append(LegacyColumns, ModeColumn)
    /\ Cardinality(rows) >= 2
    /\ \E r \in rows : r.id = 1

\* the step is the import of the module
ImportStep == pc = "off" /\ pc' # "off"

\* C10: the import keeps every row of a table without cmd_type and gives it
\* the cmd_type that do() passes to save(); rows that have a cmd_type stay
\* as they are; no row is added.
C10_LegacyRowsGetDoMode ==
    [][ImportStep =>
         /\ \A r \in rows :
               IF ModeColumn \in DOMAIN r
               THEN r \in rows'
               ELSE WithColumn(r, ModeColumn, DoMode) \in rows'
         /\ Cardinality(rows') = Cardinality(rows)
         /\ \A q \in rows' : ModeColumn \in DOMAIN q]_vars

C10_Witness ==
    /\ pc = "ready"
    /\ rows = {WithColumn(LegacyRow(i, get_system_info[1]), ModeColumn, DoMode)
                : i \in 1..MaxLegacy}
    /\ rows # {}

----------------------------------------------------------------------------
(* Properties of explain(), of the except clauses, of a missing key, of    *)
(* clear() and of the shell invocation                                     *)

\* the row the running explain() logged
LoggedByExplain(r) ==
    /\ r.cmd_type = "explain"
    /\ r.task = "Explanation Request"
    /\ r.command = command
    /\ r.os_info = get_system_info[1]

\* C13 as stated: every explain() run whose request and panel succeed adds
\* exactly one row with cmd_type explain, task "Explanation Request", the
\* user's text as command and the platform name as os_info, without a
\* confirmation prompt; no explain() run calls subprocess.run.
C13_ExplainAppendsOne ==
    invoked = "explain" =>
        /\ calls = <<>>
        /\ answer = "none" /\ ~Printed("Confirm")
        /\ (pc = "done" /\ gateway = "answered") =>
              \E r \in rows \ rows0 : rows = rows0 \cup {r} /\ LoggedByExplain(r)

\* C13, amended: every explain() run whose request and panel succeed calls
\* save() once with cmd_type explain, task "Explanation Request", the user's
\* text and the platform name, without a confirmation prompt; the call adds
\* exactly that one row when the INSERT succeeds, and no row, with a
\* Database Error message, when it fails; no explain() run calls
\* subprocess.run.
C13_ExplainSavesOnce ==
    invoked = "explain" =>
        /\ calls = <<>>
        /\ answer = "none" /\ ~Printed("Confirm")
        /\ (pc = "done" /\ gateway = "answered") =>
              /\ saved \in {"ok", "failed"}
              /\ saved = "ok" =>
                    \E r \in rows \ rows0 :
                        rows = rows0 \cup {r} /\ LoggedByExplain(r)
              /\ saved = "failed" => (rows = rows0 /\ Printed("Database Error"))
        /\ gateway # "answered" => (saved = "none" /\ rows = rows0)

C13_Witness ==
    /\ invoked = "explain"
    /\ pc = "done"
    /\ saved = "ok"
    /\ rows0 # {}

\* C14: every exception raised inside do() or explain() (a failed request,
\* a failed save, a shell executable that is missing) ends in an error
\* message on the console and a normal return of the command; none leaves
\* the command uncaught.
C14_ErrorsCaught ==
    invoked \in {"do", "explain"} =>
        /\ pc # "crashed"
        /\ ~Printed("Traceback")
        /\ gateway = "failed" => (Printed("Error") /\ pc = "done")
        /\ saved = "failed" => Printed("Database Error")
        /\ \A i \in DOMAIN calls :
              calls[i].outcome \in Exceptions => (Printed("Error") /\ pc = "done")

C14_Witness ==
    /\ invoked = "do"
    /\ pc = "done"
    /\ calls # <<>>
    /\ calls[1].outcome = "FileNotFoundError"
    /\ saved = "failed"

\* C16: without a key (client is None) do() and explain() end with an error
\* message, add no row and call no subprocess.run, while history() lists
\* the stored rows and clear() empties the table as they do with a key.
C16_NoCredential ==
    client = "None" =>
        /\ invoked \in {"do", "explain"} =>
              /\ rows = rows0 /\ calls = <<>> /\ saved = "none"
              /\ gateway # "answered"
              /\ pc = "done" => (gateway = "failed" /\ Printed("Error"))
        /\ invoked = "history" => (pc = "done" /\ listed = get_all(rows, limit))
        /\ invoked = "clear" =>
              /\ pc = "done"
              /\ rows = IF answer = "yes" THEN {} ELSE rows0

C16_Witness ==
    /\ client = "None"
    /\ invoked = "do"
    /\ pc = "done"
    /\ rows0 # {}

\* C17: clear() deletes rows only after the user accepted its prompt: after
\* a declined prompt the table holds the rows it held before, after an
\* accepted one it is empty.
C17_ClearOnlyAfterYes ==
    invoked = "clear" =>
        /\ Printed("Confirm")
        /\ answer = "no" => rows = rows0
        /\ answer = "yes" => rows = {}

C17_Witness ==
    /\ invoked = "clear"
    /\ answer = "no"
    /\ rows # {}

\* C18: do() runs the command with executable powershell and flag -Command
\* on a host platform.system() names Windows, and with executable bash and
\* flag -c on every other host, unnamed ones included.
C18_InvocationMatchesHost ==
    \A i \in DOMAIN calls :
        IF system = "Windows"
        THEN calls[i].executable = "powershell" /\ calls[i].flag = "-Command"
        ELSE calls[i].executable = "bash" /\ calls[i].flag = "-c"

C18_Witness ==
    /\ calls # <<>>
    /\ system \notin {"Windows", "Linux"}

\* C20: in every confirmed do() run one sanitized command string is the one
\* check_risk classified, the one shown in the panel, the command of the row
\* save() added and the inline argument of the shell; the run adds at most
\* one row and calls subprocess.run at most once.
C20_OneCommandString ==
    (invoked = "do" /\ answer = "yes") =>
        /\ command = SanitizeCommand(raw)
        /\ risks = check_risk(command)
        /\ shown = command
        /\ Len(calls) <= 1
        /\ \A i \in DOMAIN calls : calls[i].text = command
        /\ rows0 \subseteq rows
        /\ Cardinality(rows \ rows0) <= 1
        /\ \A r \in rows \ rows0 : r.command = command

C20_Witness ==
    /\ invoked = "do"
    /\ pc = "done"
    /\ saved = "ok"
    /\ Len(calls) = 1
    /\ raw # command

----------------------------------------------------------------------------
(* The same runs on storage that can fail in every HistoryManager method:  *)
(* the CREATE TABLE or the ALTER TABLE of the import, the SELECT of        *)
(* get_all and the DELETE of clear_all (save()'s INSERT fails in Spec too) *)

\* import with a storage fault
StartFault ==
    /\ pc = "off"
    /\ \E api_key \in Keys : client' = IF api_key # "" THEN "Groq" ELSE "None"
    /\ \/ \* create_table() has no try: the import ends with the exception
          /\ errors' = <<StoreError("create_table", DiskError, "raised")>>
          /\ cols' = cols
          /\ pc' = "crashed"
          /\ Say(<<"Traceback">>)
       \/ \* the ALTER that would add the column fails
          /\ ~AlterRaises(create_table(cols), ModeColumn)
          /\ errors' = <<StoreError("migrate", DiskError, migrate_end)>>
          /\ cols' = create_table(cols)
          /\ IF migrate_end = "raised"
             THEN pc' = "crashed" /\ Say(<<"Traceback">>)
             ELSE pc' = "ready" /\ UNCHANGED console
    /\ UNCHANGED <<rows, seq, issued, system, now, invoked, gateway, task, command,
                   risks, answer, saved, shown, calls, limit, listed, rows0, raw>>

\* history(): the SELECT of get_all fails; history() has no try
HistoryFault ==
    /\ pc = "ready"
    /\ invoked' = "history"
    /\ \E n \in Limits : limit' = n
    /\ errors' = errors \o get_all_errors(cols, TRUE)
    /\ Say(<<"Traceback">>)
    /\ rows0' = rows
    /\ pc' = "crashed"
    /\ UNCHANGED <<cols, rows, seq, issued, system, now, client, gateway, task,
                   command, risks, answer, saved, shown, calls, listed, raw>>

\* clear(): the prompt is accepted and the DELETE of clear_all fails; clear()
\* has no try
ClearFault ==
    /\ pc = "ready"
    /\ invoked' = "clear"
    /\ answer' = "yes"
    /\ errors' = errors \o clear_all_errors(TRUE)
    /\ Say(<<"Confirm", "Traceback">>)
    /\ rows0' = rows
    /\ pc' = "crashed"
    /\ UNCHANGED <<cols, rows, seq, issued, system, now, client, gateway, task,
                   command, risks, saved, shown, calls, limit, listed, raw>>

NextFaults ==
    \/ Next
    \/ StartFault
    \/ HistoryFault
    \/ ClearFault

SpecFaults == Init /\ [][NextFaults]_vars

\* C15: every exception a storage fault or the schema raises inside a
\* HistoryManager method (__init__ with create_table and migrate, save,
\* get_all, clear_all) leaves the method for its caller or, in save() only,
\* is printed; none is discarded.  Adding the column that is already there
\* is the no-op migrate() is written for and is not counted.
C15_StorageErrorsReported ==
    \A i \in DOMAIN errors :
        \/ errors[i].end = "raised"
        \/ errors[i].end = "logged" /\ errors[i].op = "save"
        \/ errors[i].op = "migrate" /\ errors[i].error = DuplicateColumn

----------------------------------------------------------------------------
(* The text functions on their own: check_risk, the sanitizing of do() and *)
(* the cleaning of explain(), each applied to one text.  A text is a few   *)
(* pieces put end to end, or one of the fixed texts below.                 *)

\* a text is made of up to MaxPieces pieces
MaxPieces == 3

Pieces ==
    { FencePowershell, FenceBash, Fence, Backtick, <<" ">>, <<"\n">>,
      <<"l","s">>, <<"R">>, <<"m">>, <<"b","a","s","h">> }

RECURSIVE TextsOf(_)
TextsOf(n) ==
    IF n = 0 THEN {<<>>}
    ELSE LET shorter == TextsOf(n - 1)
         IN shorter \cup {t \o p : t \in shorter, p \in Pieces}

UpperChar(c) ==
    IF \E i \in 1..26 : Lowercase[i] = c
    THEN Upper[CHOOSE i \in 1..26 : Lowercase[i] = c]
    ELSE c

\* every keyword inside a longer text, as it is and in capitals
KeywordTexts ==
    {<<"x", " ">> \o w \o <<"!">> : w \in Range(dangerous_keywords)}
    \cup {<<"x", " ">> \o [i \in 1..Len(w) |-> UpperChar(w[i])] \o <<"!">>
          : w \in Range(dangerous_keywords)}

SudoRm == <<"s","u","d","o"," ","r","m"," ","-","r","f"," ","/","t","m","p">>
LsLa == <<"l","s"," ","-","l","a">>
FencedLsLa == FenceBash \o <<"\n">> \o LsLa \o <<"\n">> \o Fence

Texts == TextsOf(MaxPieces) \cup KeywordTexts \cup {SudoRm, LsLa, FencedLsLa}

TextInit ==
    /\ raw \in Texts
    /\ pc = "text"
    /\ system = "Linux"
    /\ now = 0
    /\ cols = <<>> /\ rows = {} /\ seq = 0 /\ issued = <<>>
    /\ client = "None"
    /\ invoked = "none"
    /\ gateway = "none"
    /\ task = ""
    /\ command = <<>>
    /\ risks = <<>>
    /\ answer = "none"
    /\ saved = "none"
    /\ shown = <<>>
    /\ console = <<>>
    /\ calls = <<>>
    /\ limit = 0
    /\ listed = <<>>
    /\ rows0 = {}
    /\ errors = <<>>

\* check_risk(command)
Classify ==
    /\ pc = "text"
    /\ risks' = check_risk(raw)
    /\ pc' = "classified"
    /\ UNCHANGED <<cols, rows, seq, issued, system, now, client, invoked, gateway,
                   task, command, answer, saved, shown, console, calls, limit,
                   listed, rows0, raw, errors>>

\* do(): lines 167-168 on the text
SanitizeDo ==
    /\ pc = "text"
    /\ command' = SanitizeCommand(raw)
    /\ pc' = "sanitized_do"
    /\ UNCHANGED <<cols, rows, seq, issued, system, now, client, invoked, gateway,
                   task, risks, answer, saved, shown, console, calls, limit,
                   listed, rows0, raw, errors>>

\* explain(): lines 212-214 on the text
SanitizeExplain ==
    /\ pc = "text"
    /\ shown' = SanitizeExplanation(raw)
    /\ pc' = "sanitized_explain"
    /\ UNCHANGED <<cols, rows, seq, issued, system, now, client, invoked, gateway,
                   task, command, risks, answer, saved, console, calls, limit,
                   listed, rows0, raw, errors>>

TextNext ==
    \/ Classify
    \/ SanitizeDo
    \/ SanitizeExplain

TextSpec == TextInit /\ [][TextNext]_vars

----------------------------------------------------------------------------
(* Properties of the text functions *)

\* the denylist as the claim lists it
ClaimedDenylist ==
    << <<"r","m">>, <<"d","e","l">>, <<"f","o","r","m","a","t">>,
       <<"e","r","a","s","e">>, <<"d","r","o","p">>,
       <<"t","r","u","n","c","a","t","e">>,
       <<"s","h","u","t","d","o","w","n">>, <<"r","e","b","o","o","t">>,
       <<"r","e","m","o","v","e","-","i","t","e","m">>,
       <<"r","i"," ">>, <<"r","d"," ","/","s">> >>

\* w occurs in t at some position, letter case ignored
OccursIgnoringCase(w, t) ==
    \E i \in 1..(Len(t) - Len(w) + 1) :
        \A k \in 1..Len(w) : LowerChar(t[i + k - 1]) = LowerChar(w[k])

\* C11: for every command string check_risk returns exactly the denylist
\* entries that occur in it as substrings with letter case ignored, in the
\* order of the denylist; the result is non-empty exactly when some entry
\* occurs; "sudo rm -rf /tmp" gives [rm] and "ls -la" gives [].
C11_ClassifyExact ==
    pc = "classified" =>
        /\ risks = SelectSeq(ClaimedDenylist, LAMBDA w : OccursIgnoringCase(w, raw))
        /\ risks # <<>> <=>
              \E w \in Range(ClaimedDenylist) : OccursIgnoringCase(w, raw)
        /\ raw = SudoRm => risks = << <<"r","m">> >>
        /\ raw = LsLa => risks = <<>>

C11_Witness ==
    /\ pc = "classified"
    /\ Len(risks) = 2
    /\ raw # Lower(raw)

\* C12: the sanitizing of do() yields a text for every response, and applied
\* to its own result it returns that result; the fenced "ls -la" and the bare
\* "ls -la" both give "ls -la".
C12_SanitizeCommandIdempotent ==
    pc = "sanitized_do" =>
        /\ command \in Seq(Range(raw))
        /\ SanitizeCommand(command) = command
        /\ raw \in {FencedLsLa, LsLa} => command = LsLa

C12_Witness ==
    /\ pc = "sanitized_do"
    /\ raw = FencedLsLa
    /\ command = LsLa

\* C19: the cleaning of explain(), applied to its own result, returns that
\* result.
C19_SanitizeExplanationIdempotent ==
    pc = "sanitized_explain" => SanitizeExplanation(shown) = shown

====
